---- MODULE Spec2Model ----
(***************************************************************************)
(* Softpal PAC archives: the packer (src/PkPac.py) and the extractor       *)
(* (src/ExPac.py).                                                         *)
(*                                                                         *)
(* A file is the sequence of its bytes (position p of the file is element  *)
(* p + 1).  A str is the sequence of its character codes.  A 32-bit value  *)
(* that is only xor-ed is kept as its four little-endian bytes; one that   *)
(* is compared or added is a number.  An operation that can raise returns  *)
(* a record whose exc field names the exception ("none": it returned).     *)
(***************************************************************************)
EXTENDS Integers, Sequences, FiniteSets, TLC

VARIABLES pc, listing, packEntries, archive, opener, layout, entries,
          output, exc, cname, chist, cops, cshifts

vars == <<pc, listing, packEntries, archive, opener, layout, entries,
          output, exc, cname, chist, cops, cshifts>>

pipeVars == <<pc, listing, packEntries, archive, opener, layout, entries,
              output, exc>>

cipherVars == <<cname, chist, cops, cshifts>>

(***************************************************************************)
(* Bytes, bit operations, struct                                           *)
(***************************************************************************)
Min(a, b) == IF a < b THEN a ELSE b

RECURSIVE BitAnd(_, _)
BitAnd(a, b) ==
    IF a = 0 \/ b = 0 THEN 0
    ELSE (IF a % 2 = 1 /\ b % 2 = 1 THEN 1 ELSE 0) + 2 * BitAnd(a \div 2, b \div 2)

RECURSIVE BitOr(_, _)
BitOr(a, b) ==
    IF a = 0 THEN b
    ELSE IF b = 0 THEN a
    ELSE (IF a % 2 = 1 \/ b % 2 = 1 THEN 1 ELSE 0) + 2 * BitOr(a \div 2, b \div 2)

RECURSIVE BitXor(_, _)
BitXor(a, b) ==
    IF a = 0 THEN b
    ELSE IF b = 0 THEN a
    ELSE ((a + b) % 2) + 2 * BitXor(a \div 2, b \div 2)

\* x ^ y on two 32-bit values held as their little-endian bytes
XorWord(x, y) == [k \in 1..4 |-> BitXor(x[k], y[k])]

\* struct.pack('<I', n) for 0 <= n < 2^31
PackU32(n) ==
    <<n % 256, (n \div 256) % 256, (n \div 65536) % 256, (n \div 16777216) % 256>>

\* struct.unpack('<I', b): raises struct.error unless b holds 4 bytes
UnpackU32(b) ==
    IF Len(b) # 4 THEN [exc |-> "struct.error", word |-> <<0, 0, 0, 0>>]
    ELSE [exc |-> "none", word |-> b]

\* The number four little-endian bytes stand for (below 2^31)
WordValue(w) == w[1] + 256 * w[2] + 65536 * w[3] + 16777216 * w[4]

\* file.seek(pos); file.read(n): short at the end of the file, never raises
ReadAt(file, pos, n) ==
    IF pos >= Len(file) \/ n <= 0 THEN <<>>
    ELSE SubSeq(file, pos + 1, Min(pos + n, Len(file)))

Zeros(n) == [i \in 1..n |-> 0]

(***************************************************************************)
(* str operations on character codes                                       *)
(***************************************************************************)
DOT == 46
SLASH == 47
NUL == 0
DOLLAR == 36

\* str.lower() on ASCII
LowerChar(c) == IF c >= 65 /\ c <= 90 THEN c + 32 ELSE c
Lower(s) == [i \in 1..Len(s) |-> LowerChar(s[i])]

\* s.rfind(c), 1-based; 0 when c does not occur
RFind(s, c) ==
    LET hits == {i \in 1..Len(s) : s[i] = c}
    IN IF hits = {} THEN 0 ELSE CHOOSE i \in hits : \A j \in hits : j <= i

\* os.path.splitext(s)[1]: from the last dot of the last path component,
\* unless only dots precede it in that component
SplitExt(s) ==
    LET sepIndex == RFind(s, SLASH)
        dotIndex == RFind(s, DOT)
    IN IF dotIndex > sepIndex
          /\ \E k \in (sepIndex + 1)..(dotIndex - 1) : s[k] # DOT
       THEN SubSeq(s, dotIndex, Len(s))
       ELSE <<>>

\* s.split('.')[-1]
LastDotPart(s) == SubSeq(s, RFind(s, DOT) + 1, Len(s))

\* s.rstrip('\0')
RStripNul(s) ==
    LET keep == {i \in 1..Len(s) : s[i] # NUL}
    IN IF keep = {} THEN <<>>
       ELSE SubSeq(s, 1, CHOOSE i \in keep : \A j \in keep : j <= i)

IsAscii(s) == \A i \in 1..Len(s) : s[i] < 128

\* bytes.ljust(width, b'\0'): pads, never cuts
LJust(b, width) ==
    IF Len(b) >= width THEN b ELSE b \o Zeros(width - Len(b))

(***************************************************************************)
(* ExPac.py: Entry.determine_type                                          *)
(***************************************************************************)
ImageExts == { <<46, 66, 80, 73, 67>>,      \* ".BPIC"
               <<46, 112, 103, 100>>,       \* ".pgd"
               <<46, 80, 73, 67>> }         \* ".PIC"

AudioExts == { <<46, 119, 97, 118>>,        \* ".wav"
               <<46, 111, 103, 103>> }      \* ".ogg"

determine_type(name) ==
    LET ext == Lower(SplitExt(name))
    IN IF ext \in ImageExts THEN "image"
       ELSE IF ext \in AudioExts THEN "audio"
       ELSE "unknown"

\* Entry(name) with size and offset assigned (read_index)
ReaderEntry(name, size, offset) ==
    [name |-> name, size |-> size, offset |-> offset, type |-> determine_type(name)]

(***************************************************************************)
(* The payload transform                                                   *)
(***************************************************************************)
\* 0x084DF873 and 0xFF987DEE, little-endian
KeyA == <<115, 248, 77, 8>>
KeyB == <<238, 125, 152, 255>>
XorMask == XorWord(KeyA, KeyB)

PutWord(data, i, w) ==
    [k \in 1..Len(data) |-> IF k > i /\ k <= i + 4 THEN w[k - i] ELSE data[k]]

\* Faulty variant of DecNextShift: the reset comes one step late
DecNextShiftOff(shift) == IF shift + 1 > 8 THEN 0 ELSE shift + 1

\* ExPac.py: shift += 1; if shift > 7: shift = 0
DecNextShift(shift) == IF shift + 1 > 7 THEN 0 ELSE shift + 1

\* ExPac.py: (b << shift) & 0xFF | (b >> (8 - shift))
DecRotate(b, shift) ==
    BitOr(BitAnd(b * (2 ^ shift), 255), b \div (2 ^ (8 - shift)))

\* The loop of open_entry from position i on; shifts lists the shift used
\* for each word so far.
RECURSIVE DecodeLoop(_, _, _, _)
DecodeLoop(data, i, shift, shifts) ==
    IF i >= Len(data) THEN [exc |-> "none", data |-> data, shifts |-> shifts]
    ELSE LET rotated == [data EXCEPT ![i + 1] = DecRotate(data[i + 1], shift)]
             value == SubSeq(rotated, i + 1, Min(i + 4, Len(rotated)))
         IN IF UnpackU32(value).exc # "none"
            THEN [exc |-> UnpackU32(value).exc, data |-> rotated,
                  shifts |-> Append(shifts, shift)]
            ELSE DecodeLoop(PutWord(rotated, i, XorWord(value, XorMask)),
                            i + 4, DecNextShift(shift), Append(shifts, shift))

\* open_entry after the read: data is what file.read(entry.size) returned
OpenEntryData(entry, data) ==
    IF entry.type \in {"image", "audio"} \/ entry.size <= 16
    THEN [exc |-> "none", data |-> data, shifts |-> <<>>]
    ELSE IF Len(data) = 0
    THEN [exc |-> "IndexError", data |-> data, shifts |-> <<>>]
    ELSE IF data[1] # DOLLAR
    THEN [exc |-> "none", data |-> data, shifts |-> <<>>]
    ELSE IF (Len(data) - 16) \div 4 > 0
    THEN DecodeLoop(data, 16, 4, <<>>)
    ELSE [exc |-> "none", data |-> data, shifts |-> <<>>]

open_entry(file, entry) ==
    OpenEntryData(entry, ReadAt(file, entry.offset, entry.size))

\* PkPac.py: shift += 1; if shift > 7: shift = 0
EncNextShift(shift) == IF shift + 1 > 7 THEN 0 ELSE shift + 1

\* Faulty variant of EncRotate: rotates left, as the decoder does
EncRotateLeft(b, shift) ==
    BitOr(BitAnd(b * (2 ^ shift), 255), b \div (2 ^ (8 - shift)))

\* PkPac.py: (b >> shift) | (b << (8 - shift)) & 0xFF
EncRotate(b, shift) ==
    BitOr(b \div (2 ^ shift), BitAnd(b * (2 ^ (8 - shift)), 255))

RECURSIVE EncodeLoop(_, _, _, _)
EncodeLoop(data, i, shift, shifts) ==
    IF i >= Len(data) THEN [exc |-> "none", data |-> data, shifts |-> shifts]
    ELSE LET value == SubSeq(data, i + 1, Min(i + 4, Len(data)))
         IN IF UnpackU32(value).exc # "none"
            THEN [exc |-> UnpackU32(value).exc, data |-> data, shifts |-> shifts]
            ELSE LET xored == PutWord(data, i, XorWord(value, XorMask))
                     rotated == [xored EXCEPT ![i + 1] = EncRotate(xored[i + 1], shift)]
                 IN EncodeLoop(rotated, i + 4, EncNextShift(shift),
                               Append(shifts, shift))

\* encrypt_data is only called with len(data) > 16
encrypt_data(data) ==
    IF data[1] # DOLLAR
    THEN [exc |-> "none", data |-> data, shifts |-> <<>>]
    ELSE IF (Len(data) - 16) \div 4 > 0
    THEN EncodeLoop(data, 16, 4, <<>>)
    ELSE [exc |-> "none", data |-> data, shifts |-> <<>>]

AllowList == { <<106, 112, 103>>,           \* "jpg"
               <<112, 110, 103>>,           \* "png"
               <<98, 109, 112>>,            \* "bmp"
               <<119, 97, 118>>,            \* "wav"
               <<109, 112, 51>> }           \* "mp3"

\* write_archive: "Apply encryption if needed"
WriterPayload(name, data) ==
    IF Lower(LastDotPart(name)) \notin AllowList /\ Len(data) > 16
    THEN encrypt_data(data)
    ELSE [exc |-> "none", data |-> data, shifts |-> <<>>]

(***************************************************************************)
(* PkPac.py: PacPacker                                                     *)
(***************************************************************************)
PackerIndexOffset == 1022       \* 0x3FE
PackerNameLength == 32          \* self.name_length = 0x20

\* A directory listing is a sequence of items [name, isfile, data] with
\* distinct names, in os.listdir order.
RECURSIVE CollectLoop(_, _, _, _)
CollectLoop(dir, k, offset, acc) ==
    IF k > Len(dir) THEN acc
    ELSE IF dir[k].isfile
    THEN CollectLoop(dir, k + 1, offset + Len(dir[k].data),
             Append(acc, [name |-> dir[k].name, size |-> Len(dir[k].data),
                          offset |-> offset]))
    ELSE CollectLoop(dir, k + 1, offset, acc)

collect_files(dir) ==
    CollectLoop(dir, 1, PackerIndexOffset + Len(dir) * (PackerNameLength + 8), <<>>)

\* open(os.path.join(input_dir, entry.name), 'rb').read()
FileData(dir, name) == dir[CHOOSE k \in 1..Len(dir) : dir[k].name = name].data

\* "Write index": the bytes written, and the exception that stopped it
RECURSIVE WriteIndex(_, _, _)
WriteIndex(ents, k, written) ==
    IF k > Len(ents) THEN [exc |-> "none", bytes |-> written]
    ELSE IF ~IsAscii(ents[k].name)
    THEN [exc |-> "UnicodeEncodeError", bytes |-> written]
    ELSE WriteIndex(ents, k + 1,
             written \o LJust(ents[k].name, PackerNameLength)
                     \o PackU32(ents[k].size) \o PackU32(ents[k].offset))

\* "Write file data"
RECURSIVE WriteData(_, _, _, _)
WriteData(ents, dir, k, written) ==
    IF k > Len(ents) THEN [exc |-> "none", bytes |-> written]
    ELSE LET payload == WriterPayload(ents[k].name, FileData(dir, ents[k].name))
         IN IF payload.exc # "none"
            THEN [exc |-> payload.exc, bytes |-> written]
            ELSE WriteData(ents, dir, k + 1, written \o payload.data)

\* The file as it is when write_archive returns or raises
write_archive(ents, dir) ==
    LET head == PackU32(Len(ents)) \o Zeros(PackerIndexOffset - 4)
        index == WriteIndex(ents, 1, <<>>)
        body == WriteData(ents, dir, 1, <<>>)
    IN IF index.exc # "none"
       THEN [exc |-> index.exc, bytes |-> head \o index.bytes]
       ELSE [exc |-> body.exc, bytes |-> head \o index.bytes \o body.bytes]

(***************************************************************************)
(* ExPac.py: PacOpener, Pac2Opener                                         *)
(***************************************************************************)
PacIndexOffset == 1022          \* 0x3FE
PacNameLength == 32             \* 0x20
PacShortNameLength == 16        \* 0x10
Pac2CountPos == 8
Pac2IndexOffset == 2052         \* 0x804
Pac2NameLength == 32            \* 0x20
SaneCountLimit == 100000

NoLayout == [index_offset |-> 0, name_length |-> 0]

is_sane_count(count) == 0 < count /\ count < SaneCountLimit

\* What an opener's try_open gives: an exception, None, or the entries read
\* with the layout handed to read_index
Raised(e, lay) == [exc |-> e, none |-> FALSE, entries |-> <<>>, layout |-> lay]
ReturnedNone == [exc |-> "none", none |-> TRUE, entries |-> <<>>, layout |-> NoLayout]

RECURSIVE ReadIndexLoop(_, _, _, _, _)
ReadIndexLoop(file, left, index_offset, name_length, acc) ==
    IF left = 0
    THEN [exc |-> "none", entries |-> acc]
    ELSE LET raw == ReadAt(file, index_offset, name_length)
             pair == ReadAt(file, index_offset + name_length, 8)
         IN IF ~IsAscii(raw)
            THEN [exc |-> "UnicodeDecodeError", entries |-> acc]
            ELSE IF Len(pair) # 8
            THEN [exc |-> "struct.error", entries |-> acc]
            ELSE ReadIndexLoop(file, left - 1, index_offset + name_length + 8,
                     name_length,
                     Append(acc, ReaderEntry(RStripNul(raw),
                                             WordValue(SubSeq(pair, 1, 4)),
                                             WordValue(SubSeq(pair, 5, 8)))))

read_index(file, count, index_offset, name_length) ==
    LET r == ReadIndexLoop(file, count, index_offset, name_length, <<>>)
        lay == [index_offset |-> index_offset, name_length |-> name_length]
    IN IF r.exc # "none" THEN Raised(r.exc, lay)
       ELSE [exc |-> "none", none |-> FALSE, entries |-> r.entries, layout |-> lay]

\* The stored offset of the first record under a name length, and the value
\* a consistent archive holds there
FirstOffsetField(file, index_offset, name_length) ==
    UnpackU32(ReadAt(file, index_offset + name_length + 4, 4))

ExpectedFirstOffset(index_offset, count, name_length) ==
    index_offset + count * (name_length + 8)

\* Faulty variant of PacTryOpen: 16-byte names are tried before 32-byte ones
PacTryOpenShortFirst(file) ==
    LET c == UnpackU32(ReadAt(file, 0, 4))
        count == WordValue(c.word)
        wide == FirstOffsetField(file, PacIndexOffset, PacNameLength)
        short == FirstOffsetField(file, PacIndexOffset, PacShortNameLength)
    IN IF c.exc # "none" THEN Raised(c.exc, NoLayout)
       ELSE IF ~is_sane_count(count) THEN ReturnedNone
       ELSE IF short.exc # "none" THEN Raised(short.exc, NoLayout)
       ELSE IF WordValue(short.word)
               = ExpectedFirstOffset(PacIndexOffset, count, PacShortNameLength)
       THEN read_index(file, count, PacIndexOffset, PacShortNameLength)
       ELSE IF wide.exc # "none" THEN Raised(wide.exc, NoLayout)
       ELSE IF WordValue(wide.word)
               # ExpectedFirstOffset(PacIndexOffset, count, PacNameLength)
       THEN ReturnedNone
       ELSE read_index(file, count, PacIndexOffset, PacNameLength)

PacTryOpen(file) ==
    LET c == UnpackU32(ReadAt(file, 0, 4))
        count == WordValue(c.word)
        wide == FirstOffsetField(file, PacIndexOffset, PacNameLength)
        short == FirstOffsetField(file, PacIndexOffset, PacShortNameLength)
    IN IF c.exc # "none" THEN Raised(c.exc, NoLayout)
       ELSE IF ~is_sane_count(count) THEN ReturnedNone
       ELSE IF wide.exc # "none" THEN Raised(wide.exc, NoLayout)
       ELSE IF WordValue(wide.word)
               = ExpectedFirstOffset(PacIndexOffset, count, PacNameLength)
       THEN read_index(file, count, PacIndexOffset, PacNameLength)
       ELSE IF short.exc # "none" THEN Raised(short.exc, NoLayout)
       ELSE IF WordValue(short.word)
               # ExpectedFirstOffset(PacIndexOffset, count, PacShortNameLength)
       THEN ReturnedNone
       ELSE read_index(file, count, PacIndexOffset, PacShortNameLength)

Pac2TryOpen(file) ==
    LET c == UnpackU32(ReadAt(file, Pac2CountPos, 4))
        count == WordValue(c.word)
        first == FirstOffsetField(file, Pac2IndexOffset, Pac2NameLength)
    IN IF c.exc # "none" THEN Raised(c.exc, NoLayout)
       ELSE IF ~is_sane_count(count) THEN ReturnedNone
       ELSE IF first.exc # "none" THEN Raised(first.exc, NoLayout)
       ELSE IF WordValue(first.word)
               # ExpectedFirstOffset(Pac2IndexOffset, count, Pac2NameLength)
       THEN ReturnedNone
       ELSE read_index(file, count, Pac2IndexOffset, Pac2NameLength)

\* openers = [PacOpener(), Pac2Opener()]
Openers == 2
TryOpenWith(n, file) == IF n = 1 THEN PacTryOpen(file) ELSE Pac2TryOpen(file)

\* open(os.path.join(output_dir, entry.name), 'wb'): the directory itself
\* for an empty name, no path for a name holding a null character
OpenOutput(name) ==
    IF name = <<>> THEN "IsADirectoryError"
    ELSE IF \E i \in 1..Len(name) : name[i] = NUL THEN "ValueError"
    ELSE "none"

(***************************************************************************)
(* File names and payloads the operations are applied to                   *)
(***************************************************************************)
NameTxt == <<97, 46, 116, 120, 116>>        \* "a.txt"
NameWav == <<98, 46, 119, 97, 118>>         \* "b.wav"
NameOgg == <<99, 46, 111, 103, 103>>        \* "c.ogg"
NameJpg == <<100, 46, 106, 112, 103>>       \* "d.jpg"
NamePgd == <<101, 46, 112, 103, 100>>       \* "e.pgd"
NamePic == <<102, 46, 80, 73, 67>>          \* "f.PIC"

CipherNames == {NameTxt, NameWav, NameOgg, NameJpg, NamePgd, NamePic}

MaxBufLen == 57
MaxOps == 2

FirstBytes == {DOLLAR, 65}
FillPatterns == { <<0, 0>>, <<3, 37>>, <<255, 0>> }

\* n bytes: the first one given, byte i the pattern's a + b*i (mod 256)
MkBuf(first, n, pat) ==
    [i \in 1..n |-> IF i = 1 THEN first ELSE (pat[1] + pat[2] * i) % 256]

CipherBufs ==
    { MkBuf(f, n, p) : f \in FirstBytes, n \in 0..MaxBufLen, p \in FillPatterns }

NameSmall == <<103, 46, 116, 120, 116>>     \* "g.txt"
NameOdd == <<117, 46, 116, 120, 116>>       \* "u.txt"
NameSub == <<115, 117, 98>>                 \* "sub"
NameAccent == <<233, 46, 116, 120, 116>>    \* e-acute, ".txt"
NameLong == [i \in 1..33 |-> IF i <= 29 THEN 110 ELSE NameTxt[i - 28]]
                                            \* 29 times "n", ".txt"

MaxItems == 2

File(name, data) == [name |-> name, isfile |-> TRUE, data |-> data]
Folder(name) == [name |-> name, isfile |-> FALSE, data |-> <<>>]

DirItems ==
    { File(NameTxt, MkBuf(DOLLAR, 24, <<3, 37>>)),
      File(NameWav, MkBuf(DOLLAR, 24, <<3, 37>>)),
      File(NameOgg, MkBuf(DOLLAR, 20, <<3, 37>>)),
      File(NameJpg, MkBuf(DOLLAR, 20, <<3, 37>>)),
      File(NameSmall, MkBuf(65, 3, <<3, 37>>)),
      File(NameOdd, MkBuf(DOLLAR, 21, <<3, 37>>)),
      File(NameLong, MkBuf(65, 5, <<3, 37>>)),
      File(NameAccent, MkBuf(65, 5, <<3, 37>>)),
      Folder(NameSub) }

\* The listings of at most MaxItems items, no name twice
Listings ==
    UNION { { d \in [1..n -> DirItems] : \A i, j \in 1..n : i # j => d[i] # d[j] }
            : n \in 0..MaxItems }

(***************************************************************************)
(* Packing a directory, then extracting the archive                        *)
(***************************************************************************)
\* pack: entries = self.collect_files(input_dir)
CollectFiles ==
    /\ pc = "pack"
    /\ packEntries' = collect_files(listing)
    /\ pc' = "write"
    /\ UNCHANGED <<listing, archive, opener, layout, entries, output, exc, cipherVars>>

\* pack: self.write_archive(entries, input_dir, output_file)
WriteArchive ==
    /\ pc = "write"
    /\ LET w == write_archive(packEntries, listing)
       IN /\ archive' = w.bytes
          /\ exc' = w.exc
          /\ pc' = IF w.exc = "none" THEN "probe" ELSE "failed_pack"
    /\ UNCHANGED <<listing, packEntries, opener, layout, entries, output, cipherVars>>

\* extract_archive: one turn of "for opener in openers"
TryOpen ==
    /\ pc = "probe"
    /\ LET r == TryOpenWith(opener, archive)
       IN /\ exc' = r.exc
          /\ layout' = r.layout
          /\ entries' = r.entries
          /\ pc' = IF r.exc # "none" THEN "failed_probe"
                   ELSE IF ~r.none /\ r.entries # <<>> THEN "extract"
                   ELSE IF opener < Openers THEN "probe"
                   ELSE "unrecognized"
          /\ opener' = IF r.exc = "none" /\ (r.none \/ r.entries = <<>>)
                          /\ opener < Openers
                       THEN opener + 1 ELSE opener
    /\ UNCHANGED <<listing, packEntries, archive, output, cipherVars>>

\* extract_archive: one turn of "for entry in entries"
ExtractEntry ==
    /\ pc = "extract"
    /\ LET entry == entries[Len(output) + 1]
           r == open_entry(archive, entry)
           e == IF r.exc # "none" THEN r.exc ELSE OpenOutput(entry.name)
       IN /\ exc' = e
          /\ output' = IF e = "none"
                       THEN Append(output, [name |-> entry.name, data |-> r.data])
                       ELSE output
          /\ pc' = IF e # "none" THEN "failed_extract"
                   ELSE IF Len(output) + 1 = Len(entries) THEN "done"
                   ELSE "extract"
    /\ UNCHANGED <<listing, packEntries, archive, opener, layout, entries, cipherVars>>

CipherIdle ==
    /\ cname = <<>>
    /\ chist = <<>>
    /\ cops = <<>>
    /\ cshifts = <<>>

Init ==
    /\ pc = "pack"
    /\ listing \in Listings
    /\ packEntries = <<>>
    /\ archive = <<>>
    /\ opener = 1
    /\ layout = NoLayout
    /\ entries = <<>>
    /\ output = <<>>
    /\ exc = "none"
    /\ CipherIdle

Next == CollectFiles \/ WriteArchive \/ TryOpen \/ ExtractEntry

Spec == Init /\ [][Next]_vars

(***************************************************************************)
(* Extracting a file that is not (or not quite) an archive                 *)
(***************************************************************************)
MaxProbeCount == 2

Fill(b, n) == [i \in 1..n |-> b]

\* A candidate file, cut to len bytes: the two count fields (c0 at 0, c8 at
\* 8); at 0x3FE a record whose name starts with nm and whose size and offset
\* fields hold 0 and short under 16-byte names, sz and wide under 32-byte
\* names; at 0x804 a record nm, sz, pac2; zero before the end of the wide
\* record and fill everywhere else.
ProbeFile(c0, c8, wide, short, pac2, nm, sz, fill, len) ==
    LET whole ==
            PackU32(c0) \o Zeros(Pac2CountPos - 4) \o PackU32(c8)
            \o Zeros(PacIndexOffset - Pac2CountPos - 4)
            \o <<nm>> \o Zeros(PacShortNameLength - 1)
            \o PackU32(0) \o PackU32(short)
            \o Zeros(PacNameLength - PacShortNameLength - 8)
            \o PackU32(sz) \o PackU32(wide)
            \o Fill(fill, Pac2IndexOffset - (PacIndexOffset + PacNameLength + 8))
            \o <<nm>> \o Fill(fill, Pac2NameLength - 1)
            \o PackU32(sz) \o PackU32(pac2)
            \o Fill(fill, Pac2NameLength)
    IN SubSeq(whole, 1, Min(len, Len(whole)))

ProbeCounts == (0..MaxProbeCount) \cup {SaneCountLimit}
ProbeWide == {0} \cup {PacIndexOffset + c * (PacNameLength + 8) : c \in 1..MaxProbeCount}
ProbeShort == {0} \cup {PacIndexOffset + c * (PacShortNameLength + 8) : c \in 1..MaxProbeCount}
ProbePac2 == {0, Pac2IndexOffset + Pac2NameLength + 8}
ProbeNameBytes == {65, 233}
ProbePayloads == { [sz |-> 0, fill |-> 0], [sz |-> 20, fill |-> 0],
                   [sz |-> 20, fill |-> DOLLAR] }
ProbeLens == {3, 11, 1060, 1072, 2124}

ProbeFiles ==
    { ProbeFile(c0, c8, w, n, t, nm, pay.sz, pay.fill, len) :
        c0 \in ProbeCounts, c8 \in {0, 1}, w \in ProbeWide, n \in ProbeShort,
        t \in ProbePac2, nm \in ProbeNameBytes, pay \in ProbePayloads,
        len \in ProbeLens }

InitProbe ==
    /\ pc = "probe"
    /\ archive \in ProbeFiles
    /\ listing = <<>>
    /\ packEntries = <<>>
    /\ opener = 1
    /\ layout = NoLayout
    /\ entries = <<>>
    /\ output = <<>>
    /\ exc = "none"
    /\ CipherIdle

NextProbe == TryOpen \/ ExtractEntry

SpecProbe == InitProbe /\ [][NextProbe]_vars

(***************************************************************************)
(* The transform on its own: a named buffer, and the packing-direction and *)
(* extraction-direction steps applied to it in any order.                  *)
(***************************************************************************)
CipherCur == chist[Len(chist)]

CipherCanStep == Len(cops) < MaxOps /\ CipherCur.exc = "none"

CipherApply(op, r) ==
    /\ chist' = Append(chist, [exc |-> r.exc, data |-> r.data])
    /\ cops' = Append(cops, op)
    /\ cshifts' = Append(cshifts, r.shifts)
    /\ UNCHANGED <<cname, pipeVars>>

\* write_archive lines 54-56 on the buffer
Encode ==
    /\ CipherCanStep
    /\ CipherApply("enc", WriterPayload(cname, CipherCur.data))

\* open_entry lines 75-92 on the buffer, read in full
Decode ==
    /\ CipherCanStep
    /\ CipherApply("dec",
           OpenEntryData(ReaderEntry(cname, Len(CipherCur.data), 0), CipherCur.data))

PipeIdle ==
    /\ pc = "idle"
    /\ listing = <<>>
    /\ packEntries = <<>>
    /\ archive = <<>>
    /\ opener = 0
    /\ layout = [index_offset |-> 0, name_length |-> 0]
    /\ entries = <<>>
    /\ output = <<>>
    /\ exc = "none"

InitCipher ==
    /\ cname \in CipherNames
    /\ chist \in { <<[exc |-> "none", data |-> b]>> : b \in CipherBufs }
    /\ cops = <<>>
    /\ cshifts = <<>>
    /\ PipeIdle

NextCipher == Encode \/ Decode

SpecCipher == InitCipher /\ [][NextCipher]_vars

(***************************************************************************)
(* Properties of the transform (SpecCipher)                                *)
(***************************************************************************)
\* The reader classifies the name as image or audio
ReaderSkips(name) == determine_type(name) \in {"image", "audio"}

\* The writer's allow-list holds the name's extension
WriterSkips(name) == Lower(LastDotPart(name)) \in AllowList

\* Both directions transform a buffer of this name, size and first byte
BothApply(name, data) ==
    /\ Len(data) >= 20
    /\ data[1] = DOLLAR
    /\ ~ReaderSkips(name)
    /\ ~WriterSkips(name)

\* Steps k and k+1 are one encode and one decode, in either order
OppositePair(k) == k + 1 <= Len(cops) /\ cops[k] # cops[k + 1]

\* C2: on a buffer whose length is a multiple of 4 and at least 20, that
\* starts with 0x24 and that neither the reader's classification nor the
\* writer's allow-list exempts, encode then decode, and decode then encode,
\* both complete and give the buffer back.
C2_InverseOnAligned ==
    \A k \in 1..Len(cops) :
        (BothApply(cname, chist[k].data) /\ Len(chist[k].data) % 4 = 0)
        => /\ chist[k + 1].exc = "none"
           /\ OppositePair(k) => chist[k + 2] = chist[k]

C2_Witness ==
    /\ cops = <<"enc", "dec">>
    /\ cname = NameTxt
    /\ Len(chist[1].data) = 24
    /\ chist[1].data[1] = DOLLAR
    /\ chist[2].data # chist[1].data
    /\ chist[3] = chist[1]

\* C3: on every buffer of length >= 20 that starts with 0x24 (aligned or
\* not), encode and decode complete, and each undoes the other.
C3_InvolutionAnyLength ==
    \A k \in 1..Len(cops) :
        BothApply(cname, chist[k].data)
        => /\ chist[k + 1].exc = "none"
           /\ OppositePair(k) => chist[k + 2] = chist[k]

\* C4: a buffer of length <= 16, or not starting with 0x24, or whose name
\* the reader classifies image or audio, comes out of the packing-direction
\* step and of the extraction-direction step unchanged.
C4_PassThrough ==
    \A k \in 1..Len(cops) :
        (\/ Len(chist[k].data) <= 16
         \/ chist[k].data[1] # DOLLAR
         \/ ReaderSkips(cname))
        => chist[k + 1] = chist[k]

\* C10: in both directions the word at position 16 + 4k is rotated by
\* (4 + k) mod 8, a value in 0..7: the first ten words use
\* 4,5,6,7,0,1,2,3,4,5, and encode and decode use the same shift for the
\* same word.
C10_ShiftSchedule ==
    /\ \A t \in 1..Len(cshifts) :
        /\ \A k \in 1..Len(cshifts[t]) :
              cshifts[t][k] \in 0..7 /\ cshifts[t][k] = (4 + (k - 1)) % 8
        /\ Len(cshifts[t]) >= 10
              => SubSeq(cshifts[t], 1, 10) = <<4, 5, 6, 7, 0, 1, 2, 3, 4, 5>>
    /\ \A t, u \in 1..Len(cshifts) :
        \A k \in 1..Min(Len(cshifts[t]), Len(cshifts[u])) :
            cshifts[t][k] = cshifts[u][k]

C10_Witness ==
    /\ cops = <<"enc", "dec">>
    /\ Len(cshifts[1]) >= 10
    /\ Len(cshifts[2]) >= 10

(***************************************************************************)
(* Properties of packing then extracting (Spec)                            *)
(***************************************************************************)
Written == pc \notin {"pack", "write"}

\* The named buffers handed to the packer, in listing order
RECURSIVE SuppliedBuffers(_, _)
SuppliedBuffers(dir, k) ==
    IF k > Len(dir) THEN <<>>
    ELSE (IF dir[k].isfile THEN <<[name |-> dir[k].name, data |-> dir[k].data]>>
          ELSE <<>>) \o SuppliedBuffers(dir, k + 1)

\* C1: whatever named buffers are packed, an extraction of the archive that
\* runs to completion has written the same names in the same order, each
\* with the same bytes.
C1_RoundTrip == pc = "done" => output = SuppliedBuffers(listing, 1)

\* C6: the archive pack writes for a listing of files and other items
\* (every name fitting the 32-byte slot) has its first entry at
\* 0x3FE + count * (32 + 8), count being the count in its header, each later
\* entry where the one before ends, and the classic-wide probe accepts it.
C6_BuiltArchiveConsistent ==
    (Written /\ pc # "failed_pack" /\ packEntries # <<>>
       /\ \A k \in 1..Len(listing) : Len(listing[k].name) <= 32)
    => LET count == WordValue(ReadAt(archive, 0, 4))
       IN /\ packEntries[1].offset = 1022 + count * (32 + 8)
          /\ \A k \in 2..Len(packEntries) :
                packEntries[k].offset
                    = packEntries[k - 1].offset + packEntries[k - 1].size
          /\ PacTryOpen(archive).layout = [index_offset |-> 1022, name_length |-> 32]

RECURSIVE SumSizes(_, _)
SumSizes(ents, k) == IF k > Len(ents) THEN 0 ELSE ents[k].size + SumSizes(ents, k + 1)

\* C9: a build writes index records of exactly 40 bytes each, and fails
\* with NameTooLong when a name is longer than 32 bytes.
C9_NameSlotEnforced ==
    Written
    => /\ (\E k \in 1..Len(packEntries) : Len(packEntries[k].name) > 32)
            => (pc = "failed_pack" /\ exc = "NameTooLong")
       /\ pc # "failed_pack"
            => Len(archive) - 1022 - SumSizes(packEntries, 1) = 40 * Len(packEntries)

(***************************************************************************)
(* Properties of the probe and of extraction (SpecProbe)                   *)
(***************************************************************************)
\* The layouts in priority order: classic-wide, classic-narrow, tagged
Candidates ==
    << [count_pos |-> 0, index_offset |-> 1022, name_length |-> 32],
       [count_pos |-> 0, index_offset |-> 1022, name_length |-> 16],
       [count_pos |-> 8, index_offset |-> 2052, name_length |-> 32] >>

\* The little-endian uint32 at a position, -1 when the file ends before it
U32At(file, pos) ==
    IF pos + 4 <= Len(file) THEN WordValue(SubSeq(file, pos + 1, pos + 4)) ELSE -1

CandidateMatches(file, c) ==
    LET count == U32At(file, c.count_pos)
    IN /\ 0 < count
       /\ count < 100000
       /\ U32At(file, c.index_offset + c.name_length + 4)
            = c.index_offset + count * (c.name_length + 8)

FirstMatch(file) ==
    LET hits == {k \in 1..Len(Candidates) : CandidateMatches(file, Candidates[k])}
    IN IF hits = {} THEN NoLayout
       ELSE LET k == CHOOSE k \in hits : \A j \in hits : k <= j
            IN [index_offset |-> Candidates[k].index_offset,
                name_length |-> Candidates[k].name_length]

\* The probe ran to its decision: it returned, or it raised while decoding
\* the index under the layout it chose
ProbeDecided == pc # "probe" /\ (pc = "failed_probe" => layout # NoLayout)

\* C5: the index is decoded under the first candidate, in the order wide,
\* narrow, tagged, whose count is in (0, 100000) and whose stored first
\* offset is index_offset + count * (slot + 8); when no candidate qualifies
\* the result is no-match, with no entry decoded and nothing extracted.
C5_FirstMatchingCandidate ==
    ProbeDecided
    => /\ layout = FirstMatch(archive)
       /\ FirstMatch(archive) = NoLayout
            => (pc = "unrecognized" /\ entries = <<>> /\ output = <<>>)

\* A file both classic candidates match is decoded as classic-wide
C5_Witness ==
    /\ pc = "extract"
    /\ CandidateMatches(archive, Candidates[1])
    /\ CandidateMatches(archive, Candidates[2])
    /\ layout = [index_offset |-> 1022, name_length |-> 32]

\* C7: whatever the bytes of the candidate file, try_open returns entries
\* or None and never raises.
C7_ProbeNeverRaises == pc # "failed_probe"

\* C8: an entry whose size exceeds the bytes from its offset to the end of
\* the file is never written out as extracted: what open_entry returned for
\* an entry has the entry's size.
C8_TruncatedRead ==
    \A k \in 1..Len(output) :
        /\ Len(archive) - entries[k].offset >= entries[k].size
        /\ Len(output[k].data) = entries[k].size

====
